---- MODULE Spec2Model ----
(***************************************************************************)
(* phosphor-disposable: the IDisposable pattern, DisposableDelegate and    *)
(* DisposableSet of src/src/index.ts, as a state machine.                  *)
(*                                                                         *)
(* The program is single threaded and synchronous, but it is re-entrant:   *)
(* DisposableDelegate.dispose() runs a user callback and                   *)
(* DisposableSet.dispose() runs its members' dispose(), and both may call  *)
(* back into the library.  The state therefore holds the JavaScript call   *)
(* stack: a frame for every callback that is running and for every         *)
(* forEach of DisposableSet.dispose() that is iterating.  User code (the   *)
(* test or application at the bottom of the stack, or a running callback)  *)
(* issues the library calls.                                               *)
(***************************************************************************)
EXTENDS Integers, Sequences, FiniteSets, TLC

\* ------------------------------------------------------------------ bounds
\* The longest list handed to a DisposableSet constructor, and the number of
\* library calls user code makes after construction.
MaxInitItems == 2
MaxCalls == 3
\* The number of add() calls made on a set before a disposal begins, in the
\* specification of disposals that start from sets filled by add().
MaxAdds == 2

\* ---------------------------------------------------------------- universe
\* The objects of a run, numbered in the order of their construction: two
\* delegates, then two sets.  Every one of them is an IDisposable and may be
\* handed to any set, the set itself included.  The first delegate is
\* constructed with any callback value, the second one with a function.
Delegates == {1, 2}
DisposableSets == {3, 4}
IDisposable == Delegates \cup DisposableSets

\* Values a `_callback` field holds: the constructor stores its argument
\* unchecked (null inhabits every type of the TypeScript the library is
\* written in), dispose() stores null.
Null == "null"
Function == "function"
CallbackValues == {Null, Function}

\* JavaScript's ToBoolean on those values, as `!x` and `if (x)` apply it.
Truthy(v) == v = Function

\* A truth test that takes an empty Set for a missing one.
TruthyIfNotEmpty(ref) == ~ref.null /\ ref.entries # <<>>

\* A `_set` field: null, or a Set object.  An ES2015 Set keeps its entries
\* in insertion order, without duplicates: a sequence without repetition.
\* A Set object is truthy whatever it holds, an empty one too.
NullSet == [null |-> TRUE, entries |-> <<>>]
SetObject(entries) == [null |-> FALSE, entries |-> entries]
TruthySet(ref) == ~ref.null

Range(seq) == {seq[k] : k \in 1 .. Len(seq)}
SeqsUpTo(S, n) == UNION {[1 .. k -> S] : k \in 0 .. n}

\* Results a library call hands to the user code that made it.
NoResult == "none"
Returned == "returned"
DisposedError == "Error: object is disposed"
CallbackError == "error thrown by a callback"
ReadTrue == "true"
ReadFalse == "false"

VARIABLES
  callback,    \* DisposableDelegate._callback, per delegate
  set,         \* DisposableSet._set, per set
  stack,       \* the call stack: running callbacks and forEach loops
  result,      \* how the last library call made by user code ended, or the
               \* value of isDisposed it has read since
  calls,       \* the number of library calls user code has made
  ctorCallback,\* history: the callback each delegate was constructed with
  firstAdded,  \* history: per set, the items in the order of their first add
  forgotten,   \* history: per set, the items it held that were removed or
               \* cleared and not added again
  notes,       \* history: per set, what has happened to it (see Notes)
  memberSince, \* history: per set, its members in the order of the add() that
               \* made each of them a member
  aborted,     \* history: the sets whose dispose() an error has cut short
  disposeCalls,\* history: per object, the number of dispose() calls on it
  invoked,     \* history: per delegate, the number of callback invocations
  disposedBy   \* history: per set, the members it called dispose() on, in order

vars == <<callback, set, stack, result, calls, ctorCallback, firstAdded, forgotten,
          notes, memberSince, aborted, disposeCalls, invoked, disposedBy>>

\* What add, remove and clear note down, and what dispose() notes down.
membership == <<firstAdded, forgotten, notes, memberSince>>
disposal == <<aborted, disposeCalls, invoked, disposedBy>>

\* Notes on a set: add() was called with an item that was a member
\* ("repeated"), an item that had been taken out was added again
\* ("readded"), and the last successful change was a clear ("cleared").
Notes == {"repeated", "readded", "cleared"}

\* ------------------------------------------------------------ ES2015 Set
\* An add that puts the new value in front of the entries.
SetAddInFront(entries, item) ==
  IF \E k \in 1 .. Len(entries) : entries[k] = item
    THEN entries
    ELSE <<item>> \o entries

\* An add that appends without looking for the value (an array push).
SetAddUnchecked(entries, item) == Append(entries, item)

\* Set.prototype.add: appends the value unless it is already an entry.
SetAdd(entries, item) ==
  IF \E k \in 1 .. Len(entries) : entries[k] = item
    THEN entries
    ELSE Append(entries, item)

\* A delete that fills the hole with the last entry (an array swap-remove).
SetDeleteSwap(entries, item) ==
  IF \E k \in 1 .. Len(entries) : entries[k] = item
    THEN LET k == CHOOSE j \in 1 .. Len(entries) : entries[j] = item
             n == Len(entries)
         IN  IF k = n THEN SubSeq(entries, 1, n - 1)
             ELSE [SubSeq(entries, 1, n - 1) EXCEPT ![k] = entries[n]]
    ELSE entries

\* Set.prototype.delete: drops the entry, the others keep their places.
SetDelete(entries, item) ==
  IF \E k \in 1 .. Len(entries) : entries[k] = item
    THEN LET k == CHOOSE j \in 1 .. Len(entries) : entries[j] = item
         IN  SubSeq(entries, 1, k - 1) \o SubSeq(entries, k + 1, Len(entries))
    ELSE entries

\* Set.prototype.clear
SetClear(entries) == <<>>

\* ---------------------------------------------------------- the getters
\* DisposableDelegate.isDisposed: return !this._callback
DelegateIsDisposed(d) == ~Truthy(callback[d])

\* DisposableSet.isDisposed: return !this._set
SetIsDisposed(s) == ~TruthySet(set[s])

isDisposed(x) == IF x \in Delegates THEN DelegateIsDisposed(x) ELSE SetIsDisposed(x)

\* -------------------------------------------------------- the call stack
CallbackFrame(d) == [kind |-> "callback", self |-> d, items |-> <<>>, idx |-> 0]
ForEachFrame(s, entries) == [kind |-> "forEach", self |-> s, items |-> entries, idx |-> 1]

Top == stack[Len(stack)]
Pop(stk) == SubSeq(stk, 1, Len(stk) - 1)

\* User code holds control: the top-level program, or a running callback.
UserCodeOn(stk) == IF stk = <<>> THEN TRUE ELSE stk[Len(stk)].kind = "callback"
UserCode == UserCodeOn(stack)

\* An error leaves every forEach it passes through (DisposableSet.dispose has
\* no try/catch) and reaches the nearest user code below.
RECURSIVE Unwind(_)
Unwind(stk) ==
  IF UserCodeOn(stk) THEN stk ELSE Unwind(Pop(stk))

\* ------------------------------------------------------------ constructors
\* DisposableDelegate constructor: this._callback = callback
DelegateConstructor(cb) == cb

\* A constructor that keeps the list as it is given, repeated items too.
RECURSIVE ConstructorPush(_, _)
ConstructorPush(entries, items) ==
  IF items = <<>> THEN entries
  ELSE ConstructorPush(Append(entries, Head(items)), Tail(items))

\* DisposableSet constructor: items.forEach(item => this._set.add(item))
RECURSIVE ConstructorAdd(_, _)
ConstructorAdd(entries, items) ==
  IF items = <<>> THEN entries
  ELSE ConstructorAdd(SetAdd(entries, Head(items)), Tail(items))

SetConstructor(items) == SetObject(ConstructorAdd(<<>>, items))

\* History of first insertions, kept apart from the Set: the item is noted
\* the first time it is ever handed to the collection.
NoteFirst(seq, item) == IF item \in Range(seq) THEN seq ELSE Append(seq, item)

RECURSIVE NoteAll(_, _)
NoteAll(seq, items) ==
  IF items = <<>> THEN seq ELSE NoteAll(NoteFirst(seq, Head(items)), Tail(items))

\* A set is built from objects that exist already: the delegates and the
\* sets constructed before it.
ConstructorLists(s) ==
  SeqsUpTo(Delegates \cup {t \in DisposableSets : t < s}, MaxInitItems)

Init ==
  /\ ctorCallback \in [Delegates -> CallbackValues]
  /\ ctorCallback[2] = Function
  /\ callback = [d \in Delegates |-> DelegateConstructor(ctorCallback[d])]
  /\ \E lists \in [DisposableSets -> SeqsUpTo(IDisposable, MaxInitItems)] :
       /\ \A s \in DisposableSets : lists[s] \in ConstructorLists(s)
       /\ set = [s \in DisposableSets |-> SetConstructor(lists[s])]
       /\ firstAdded = [s \in DisposableSets |-> NoteAll(<<>>, lists[s])]
       /\ notes = [s \in DisposableSets |-> {}]
       /\ memberSince = [s \in DisposableSets |-> NoteAll(<<>>, lists[s])]
  /\ stack = <<>>
  /\ result = NoResult
  /\ calls = 0
  /\ forgotten = [s \in DisposableSets |-> {}]
  /\ aborted = {}
  /\ disposeCalls = [x \in IDisposable |-> 0]
  /\ invoked = [d \in Delegates |-> 0]
  /\ disposedBy = [s \in DisposableSets |-> <<>>]

\* ------------------------------------------------------------- dispose()
\* The result the caller sees when a call returns to it on the stack `stk`:
\* user code notes it, a forEach goes on to its next entry.
ResultOn(stk, r) == IF UserCodeOn(stk) THEN r ELSE result

\* A dispose() that invokes the callback and forgets to clear the field.
DelegateDisposeKeepsCallback(d, stk) ==
  LET cb == callback[d] IN
  /\ callback' = callback
  /\ disposeCalls' = [disposeCalls EXCEPT ![d] = @ + 1]
  /\ IF Truthy(cb)
       THEN /\ stack' = Append(stk, CallbackFrame(d))
            /\ invoked' = [invoked EXCEPT ![d] = @ + 1]
            /\ result' = result
       ELSE /\ stack' = stk
            /\ invoked' = invoked
            /\ result' = ResultOn(stk, Returned)
  /\ UNCHANGED set

\* DisposableDelegate.dispose(), called with `stk` as the caller's stack:
\*   var callback = this._callback; this._callback = null;
\*   if (callback) callback();
DelegateDispose(d, stk) ==
  LET cb == callback[d] IN
  /\ callback' = [callback EXCEPT ![d] = Null]
  /\ disposeCalls' = [disposeCalls EXCEPT ![d] = @ + 1]
  /\ IF Truthy(cb)
       THEN /\ stack' = Append(stk, CallbackFrame(d))
            /\ invoked' = [invoked EXCEPT ![d] = @ + 1]
            /\ result' = result
       ELSE /\ stack' = stk
            /\ invoked' = invoked
            /\ result' = ResultOn(stk, Returned)
  /\ UNCHANGED set

\* A dispose() that disposes the items and forgets to drop the Set.
SetDisposeKeepsSet(s, stk) ==
  LET captured == set[s] IN
  /\ set' = set
  /\ disposeCalls' = [disposeCalls EXCEPT ![s] = @ + 1]
  /\ IF TruthySet(captured)
       THEN /\ stack' = Append(stk, ForEachFrame(s, captured.entries))
            /\ result' = result
       ELSE /\ stack' = stk
            /\ result' = ResultOn(stk, Returned)
  /\ UNCHANGED <<callback, invoked>>

\* DisposableSet.dispose(), called with `stk` as the caller's stack:
\*   var set = this._set; this._set = null;
\*   if (set) set.forEach(item => item.dispose());
SetDispose(s, stk) ==
  LET captured == set[s] IN
  /\ set' = [set EXCEPT ![s] = NullSet]
  /\ disposeCalls' = [disposeCalls EXCEPT ![s] = @ + 1]
  /\ IF TruthySet(captured)
       THEN /\ stack' = Append(stk, ForEachFrame(s, captured.entries))
            /\ result' = result
       ELSE /\ stack' = stk
            /\ result' = ResultOn(stk, Returned)
  /\ UNCHANGED <<callback, invoked>>

\* item.dispose() through the IDisposable interface
dispose(x, stk) ==
  IF x \in Delegates THEN DelegateDispose(x, stk) ELSE SetDispose(x, stk)

\* User code makes one more library call.
UserCall ==
  /\ UserCode
  /\ calls < MaxCalls
  /\ calls' = calls + 1

\* User code calls x.dispose().
CallDispose(x) ==
  /\ UserCall
  /\ dispose(x, stack)
  /\ UNCHANGED <<ctorCallback, membership, aborted, disposedBy>>

\* A forEach that leaves out the members that read disposed:
\*   set.forEach(item => { if (!item.isDisposed) item.dispose(); })
ForEachStepSkippingDisposed ==
  /\ stack # <<>>
  /\ Top.kind = "forEach"
  /\ Top.idx <= Len(Top.items)
  /\ LET item == Top.items[Top.idx]
         advanced == [stack EXCEPT ![Len(stack)].idx = @ + 1]
     IN  /\ IF isDisposed(item)
              THEN /\ stack' = advanced
                   /\ UNCHANGED <<callback, set, result, disposeCalls, invoked>>
              ELSE dispose(item, advanced)
         /\ disposedBy' = [disposedBy EXCEPT ![Top.self] = Append(@, item)]
  /\ UNCHANGED <<calls, ctorCallback, membership, aborted>>

\* One turn of set.forEach(item => item.dispose()): the loop moves to its
\* next entry and the arrow function calls dispose() on the current one.
ForEachStep ==
  /\ stack # <<>>
  /\ Top.kind = "forEach"
  /\ Top.idx <= Len(Top.items)
  /\ LET item == Top.items[Top.idx]
         advanced == [stack EXCEPT ![Len(stack)].idx = @ + 1]
     IN  /\ dispose(item, advanced)
         /\ disposedBy' = [disposedBy EXCEPT ![Top.self] = Append(@, item)]
  /\ UNCHANGED <<calls, ctorCallback, membership, aborted>>

\* forEach has visited every entry: DisposableSet.dispose() returns.
ForEachReturn ==
  /\ stack # <<>>
  /\ Top.kind = "forEach"
  /\ Top.idx > Len(Top.items)
  /\ stack' = Pop(stack)
  /\ result' = ResultOn(Pop(stack), Returned)
  /\ UNCHANGED <<callback, set, calls, ctorCallback, membership, disposal>>

\* The running callback returns: DisposableDelegate.dispose() returns.
CallbackReturn ==
  /\ stack # <<>>
  /\ Top.kind = "callback"
  /\ stack' = Pop(stack)
  /\ result' = ResultOn(Pop(stack), Returned)
  /\ UNCHANGED <<callback, set, calls, ctorCallback, membership, disposal>>

\* A collection that catches what a member's dispose() throws and goes on
\* with its next member; only a caller in user code receives the error.
CallbackThrowContinuing ==
  /\ stack # <<>>
  /\ Top.kind = "callback"
  /\ stack' = Pop(stack)
  /\ result' = ResultOn(Pop(stack), CallbackError)
  /\ UNCHANGED <<callback, set, calls, ctorCallback, membership, disposal>>

\* A collection that takes its members back when a member's dispose()
\* throws (catch, restore this._set, rethrow), to be disposed again later.
CallbackThrowRestoring ==
  /\ stack # <<>>
  /\ Top.kind = "callback"
  /\ stack' = Unwind(Pop(stack))
  /\ result' = CallbackError
  /\ aborted' = aborted \cup {stack[k].self : k \in (Len(stack') + 1) .. (Len(stack) - 1)}
  /\ set' = [s \in DisposableSets |->
       IF \E k \in (Len(stack') + 1) .. (Len(stack) - 1) : stack[k].self = s
         THEN SetObject(memberSince[s])
         ELSE set[s]]
  /\ UNCHANGED <<callback, calls, ctorCallback, membership, disposeCalls,
                 invoked, disposedBy>>

\* A dispose() that catches what the callback throws and returns normally.
CallbackThrowSwallowed ==
  /\ stack # <<>>
  /\ Top.kind = "callback"
  /\ stack' = Pop(stack)
  /\ result' = ResultOn(Pop(stack), Returned)
  /\ UNCHANGED <<callback, set, calls, ctorCallback, membership, disposal>>

\* The running callback throws: nothing in the library catches, so the error
\* leaves DisposableDelegate.dispose() and every forEach above the nearest
\* user code, which receives it.
CallbackThrow ==
  /\ stack # <<>>
  /\ Top.kind = "callback"
  /\ stack' = Unwind(Pop(stack))
  /\ result' = CallbackError
  /\ aborted' = aborted \cup {stack[k].self : k \in (Len(stack') + 1) .. (Len(stack) - 1)}
  /\ UNCHANGED <<callback, set, calls, ctorCallback, membership, disposeCalls,
                 invoked, disposedBy>>

\* ------------------------------------------------- add / remove / clear
\* What a successful add, remove and clear note down about the set.
NoteAdd(s, item) ==
  /\ firstAdded' = [firstAdded EXCEPT ![s] = NoteFirst(@, item)]
  /\ forgotten' = [forgotten EXCEPT ![s] = @ \ {item}]
  /\ notes' = [notes EXCEPT ![s] =
       (@ \ {"cleared"})
         \cup (IF item \in forgotten[s] THEN {"readded"} ELSE {})
         \cup (IF item \in Range(firstAdded[s]) \ forgotten[s]
                THEN {"repeated"} ELSE {})]
  /\ memberSince' = [memberSince EXCEPT ![s] = NoteFirst(@, item)]

NoteRemove(s, item) ==
  /\ firstAdded' = firstAdded
  /\ forgotten' = [forgotten EXCEPT ![s] = @ \cup ({item} \cap Range(firstAdded[s]))]
  /\ notes' = notes
  /\ memberSince' = [memberSince EXCEPT ![s] = SelectSeq(@, LAMBDA x : x # item)]

NoteClear(s) ==
  /\ firstAdded' = firstAdded
  /\ forgotten' = [forgotten EXCEPT ![s] = Range(firstAdded[s])]
  /\ notes' = [notes EXCEPT ![s] =
       @ \cup {"cleared"}]
  /\ memberSince' = [memberSince EXCEPT ![s] = <<>>]

\* An add that makes a fresh Set when the set has been disposed.
addReviving(s, item) ==
  /\ UserCall
  /\ set' = [set EXCEPT ![s] = SetObject(SetAdd(@.entries, item))]
  /\ result' = Returned
  /\ NoteAdd(s, item)
  /\ UNCHANGED <<callback, stack, ctorCallback, disposal>>

\* DisposableSet.add(item):
\*   if (!this._set) throw new Error('object is disposed');
\*   this._set.add(item);
add(s, item) ==
  /\ UserCall
  /\ IF ~TruthySet(set[s])
       THEN /\ result' = DisposedError
            /\ UNCHANGED <<set, membership>>
       ELSE /\ set' = [set EXCEPT ![s] = SetObject(SetAdd(@.entries, item))]
            /\ result' = Returned
            /\ NoteAdd(s, item)
  /\ UNCHANGED <<callback, stack, ctorCallback, disposal>>

\* A remove that quietly does nothing when the set has been disposed.
removeUnguarded(s, item) ==
  /\ UserCall
  /\ result' = Returned
  /\ IF ~TruthySet(set[s])
       THEN UNCHANGED <<set, membership>>
       ELSE /\ set' = [set EXCEPT ![s] = SetObject(SetDelete(@.entries, item))]
            /\ NoteRemove(s, item)
  /\ UNCHANGED <<callback, stack, ctorCallback, disposal>>

\* DisposableSet.remove(item):
\*   if (!this._set) throw new Error('object is disposed');
\*   this._set.delete(item);
remove(s, item) ==
  /\ UserCall
  /\ IF ~TruthySet(set[s])
       THEN /\ result' = DisposedError
            /\ UNCHANGED <<set, membership>>
       ELSE /\ set' = [set EXCEPT ![s] = SetObject(SetDelete(@.entries, item))]
            /\ result' = Returned
            /\ NoteRemove(s, item)
  /\ UNCHANGED <<callback, stack, ctorCallback, disposal>>

\* A clear that disposes the items it takes out.
clearDisposing(s) ==
  /\ UserCall
  /\ IF ~TruthySet(set[s])
       THEN /\ result' = DisposedError
            /\ UNCHANGED <<set, membership, stack>>
       ELSE /\ set' = [set EXCEPT ![s] = SetObject(SetClear(@.entries))]
            /\ stack' = Append(stack, ForEachFrame(s, set[s].entries))
            /\ result' = result
            /\ NoteClear(s)
  /\ UNCHANGED <<callback, ctorCallback, disposal>>

\* DisposableSet.clear():
\*   if (!this._set) throw new Error('object is disposed');
\*   this._set.clear();
clear(s) ==
  /\ UserCall
  /\ IF ~TruthySet(set[s])
       THEN /\ result' = DisposedError
            /\ UNCHANGED <<set, membership>>
       ELSE /\ set' = [set EXCEPT ![s] = SetObject(SetClear(@.entries))]
            /\ result' = Returned
            /\ NoteClear(s)
  /\ UNCHANGED <<callback, stack, ctorCallback, disposal>>

\* ----------------------------------------------------- reading isDisposed
\* A getter that drops the field it tests (`=` written for a comparison).
ReadIsDisposedClearing(x) ==
  /\ UserCode
  /\ result' = IF isDisposed(x) THEN ReadTrue ELSE ReadFalse
  /\ IF x \in Delegates
       THEN callback' = [callback EXCEPT ![x] = Null] /\ set' = set
       ELSE set' = [set EXCEPT ![x] = NullSet] /\ callback' = callback
  /\ UNCHANGED <<stack, calls, ctorCallback, membership, disposal>>

\* User code reads x.isDisposed: the getter returns !this._callback or
\* !this._set and writes nothing.  A property read is no method call: it is
\* not counted among the calls.
ReadIsDisposed(x) ==
  /\ UserCode
  /\ result' = IF isDisposed(x) THEN ReadTrue ELSE ReadFalse
  /\ UNCHANGED <<callback, set, stack, calls, ctorCallback, membership, disposal>>

Next ==
  \/ \E x \in IDisposable : CallDispose(x)
  \/ \E x \in IDisposable : ReadIsDisposed(x)
  \/ ForEachStep
  \/ ForEachReturn
  \/ CallbackReturn
  \/ CallbackThrow
  \/ \E s \in DisposableSets, item \in IDisposable : add(s, item)
  \/ \E s \in DisposableSets, item \in IDisposable : remove(s, item)
  \/ \E s \in DisposableSets : clear(s)

Spec == Init /\ [][Next]_vars

\* ------------------------------------------- disposal of sets filled by add
\* Disposal started from the states add() leaves: every set was constructed
\* empty and add() was called on it with the items of a list, which may name
\* any object, the set itself and the other set included (that is how a set
\* comes to contain itself, directly or through the other one).  The fields
\* and the history are those the add() calls produce.
HasRepeats(list) == \E j, k \in 1 .. Len(list) : j # k /\ list[j] = list[k]

InitCycles ==
  /\ ctorCallback \in [Delegates -> CallbackValues]
  /\ ctorCallback[2] = Function
  /\ callback = [d \in Delegates |-> DelegateConstructor(ctorCallback[d])]
  /\ \E lists \in [DisposableSets -> SeqsUpTo(IDisposable, MaxAdds)] :
       /\ set = [s \in DisposableSets |-> SetObject(ConstructorAdd(<<>>, lists[s]))]
       /\ firstAdded = [s \in DisposableSets |-> NoteAll(<<>>, lists[s])]
       /\ memberSince = [s \in DisposableSets |-> NoteAll(<<>>, lists[s])]
       /\ notes = [s \in DisposableSets |->
            IF HasRepeats(lists[s]) THEN {"repeated"} ELSE {}]
  /\ stack = <<>>
  /\ result = NoResult
  /\ calls = 0
  /\ forgotten = [s \in DisposableSets |-> {}]
  /\ aborted = {}
  /\ disposeCalls = [x \in IDisposable |-> 0]
  /\ invoked = [d \in Delegates |-> 0]
  /\ disposedBy = [s \in DisposableSets |-> <<>>]

\* From there on user code only disposes.
NextCycles ==
  \/ \E x \in IDisposable : CallDispose(x)
  \/ ForEachStep
  \/ ForEachReturn
  \/ CallbackReturn
  \/ CallbackThrow

\* JavaScript runs a call to completion: a forEach that has a next entry
\* visits it, one that has none returns, and a callback ends, by returning
\* or by throwing.
RunToCompletion ==
  /\ WF_vars(ForEachStep)
  /\ WF_vars(ForEachReturn)
  /\ WF_vars(CallbackReturn \/ CallbackThrow)

SpecCycles == InitCycles /\ [][NextCycles]_vars /\ RunToCompletion

\* ================================================================ claims
\* Vocabulary of the claims, read off the history variables only.

\* No forEach of set s is on the call stack.
NotIterating(s) ==
  \A k \in 1 .. Len(stack) : ~(stack[k].kind = "forEach" /\ stack[k].self = s)

\* dispose() of set s has run to its end: no error cut it short.
Completed(s) == SetIsDisposed(s) /\ NotIterating(s) /\ s \notin aborted

\* The items of set s that were not taken out, in the order of their first add.
Kept(s) == SelectSeq(firstAdded[s], LAMBDA x : x \notin forgotten[s])

\* A remove or clear has taken a member out of set s.
Shrunk(s) == forgotten[s] # {} \/ "readded" \in notes[s]

NoDuplicates(seq) == \A j, k \in 1 .. Len(seq) : seq[j] = seq[k] => j = k

\* ---------------------------------------------------------------- C1
\* C1: a delegate constructed with a callback invokes it exactly once over
\* any number N >= 1 of dispose() calls: the count of invocations is 0
\* before the first call and 1 ever after, and the step that invokes the
\* callback is the first dispose() call (the call count goes from 0 to 1).
\* A delegate constructed without a callback never invokes anything.
C1_InvokedCount ==
  \A d \in Delegates :
    invoked[d] = IF Truthy(ctorCallback[d]) /\ disposeCalls[d] >= 1 THEN 1 ELSE 0

C1_InvokedByFirstCall ==
  \A d \in Delegates :
    invoked'[d] # invoked[d] =>
      /\ disposeCalls[d] = 0
      /\ disposeCalls'[d] = 1
      /\ invoked'[d] = 1

\* C1: the callback is invoked exactly once, by the first dispose() call.
C1_CallbackInvokedExactlyOnce == []C1_InvokedCount /\ [][C1_InvokedByFirstCall]_vars

\* A delegate with a callback, disposed three times, all calls returned.
C1_Witness ==
  \E d \in Delegates :
    /\ Truthy(ctorCallback[d])
    /\ disposeCalls[d] >= 3
    /\ invoked[d] = 1
    /\ stack = <<>>


\* ---------------------------------------------------------------- C2
\* C2: DisposableSet.dispose() is idempotent.  A dispose() call on a set that
\* is already disposed returns without raising, starts no forEach, and
\* changes no delegate, no set and no count of callback invocations; made
\* by user code it changes nothing but the count of calls.  So over any
\* number of dispose() calls the set calls dispose() on no item twice, on no
\* item that was not a member, and, once its first dispose() has run to its
\* end, on every member exactly once.
C2_OncePerMember ==
  \A s \in DisposableSets :
    /\ NoDuplicates(disposedBy[s])
    /\ Range(disposedBy[s]) \subseteq Range(Kept(s))
    /\ ~SetIsDisposed(s) => disposedBy[s] = <<>>
    /\ Completed(s) => Range(disposedBy[s]) = Range(Kept(s))

C2_FurtherDisposeIsNoOp ==
  \A s \in DisposableSets :
    (SetIsDisposed(s) /\ disposeCalls'[s] > disposeCalls[s]) =>
      /\ set' = set
      /\ callback' = callback
      /\ invoked' = invoked
      /\ aborted' = aborted
      /\ Len(stack') = Len(stack)
      /\ result' \in {result, Returned}
      /\ UserCode =>
           /\ result' = Returned
           /\ stack' = stack
           /\ disposedBy' = disposedBy

\* C2: a further dispose() of a set is a no-op; no member is disposed twice.
C2_SetDisposeIdempotent == []C2_OncePerMember /\ [][C2_FurtherDisposeIsNoOp]_vars

\* A set of two or more members, disposed twice or more, every call returned.
C2_Witness ==
  \E s \in DisposableSets :
    /\ disposeCalls[s] >= 2
    /\ Completed(s)
    /\ Len(disposedBy[s]) >= 2
    /\ stack = <<>>
    /\ result = Returned

\* ---------------------------------------------------------------- C3
\* C3: a set that was handed pairwise distinct items, by its constructor
\* list, by add() calls or by both, and that no remove or clear has taken
\* a member from, disposes its members in the order of insertion: while its
\* dispose() runs the items disposed so far are the first ones inserted, in
\* that order, and when it has run to its end they are all of them.
IsPrefix(p, seq) == Len(p) <= Len(seq) /\ p = SubSeq(seq, 1, Len(p))

C3_DisposedInInsertionOrder ==
  \A s \in DisposableSets :
    (~Shrunk(s) /\ "repeated" \notin notes[s]) =>
      /\ IsPrefix(disposedBy[s], firstAdded[s])
      /\ Completed(s) => disposedBy[s] = firstAdded[s]

\* Three distinct items, more than a constructor list holds, so at least
\* one came by add(): all three disposed, in the order of insertion.
C3_Witness ==
  \E s \in DisposableSets :
    /\ ~Shrunk(s)
    /\ "repeated" \notin notes[s]
    /\ Completed(s)
    /\ Len(firstAdded[s]) > MaxInitItems
    /\ disposedBy[s] = firstAdded[s]
    /\ stack = <<>>

\* ---------------------------------------------------------------- C4
\* C4: membership is unique per item.  No Set ever holds an item twice
\* (neither a set's own nor one a running dispose() iterates); add() of an
\* item that is a member changes nothing but the caller's result; and a set
\* that only ever saw add() calls, repeated ones included, disposes every
\* item exactly once, at the position of its first insertion.
C4_UniqueMembers ==
  /\ \A s \in DisposableSets : NoDuplicates(set[s].entries)
  /\ \A k \in 1 .. Len(stack) : NoDuplicates(stack[k].items)
  /\ \A s \in DisposableSets :
       ~Shrunk(s) =>
         /\ NoDuplicates(disposedBy[s])
         /\ \A k \in 1 .. Len(disposedBy[s]) :
              k <= Len(firstAdded[s]) /\ disposedBy[s][k] = firstAdded[s][k]
         /\ Completed(s) => Len(disposedBy[s]) = Len(firstAdded[s])

C4_RepeatedAddIsNoOp ==
  \A s \in DisposableSets, item \in IDisposable :
    (TruthySet(set[s]) /\ item \in Range(set[s].entries) /\ add(s, item)) =>
      /\ result' = Returned
      /\ UNCHANGED <<callback, set, stack, firstAdded, forgotten, disposal>>

\* C4: no item is a member twice; a repeated add() changes nothing.
C4_MembershipUnique == []C4_UniqueMembers /\ [][C4_RepeatedAddIsNoOp]_vars

\* add() was called with an item that was a member, other items came before
\* or after it, and the set has disposed each of them once, in order.
C4_Witness ==
  \E s \in DisposableSets :
    /\ "repeated" \in notes[s]
    /\ ~Shrunk(s)
    /\ Completed(s)
    /\ Len(disposedBy[s]) >= 2
    /\ disposedBy[s] = firstAdded[s]
    /\ stack = <<>>

\* ---------------------------------------------------------------- C5
\* C5: on a set that has been disposed, every add(item), remove(item) and
\* clear() fails with the 'object is disposed' error and changes nothing:
\* no field, no frame of the call stack, no membership, no disposal.  That
\* error is raised by nothing else.
C5_ErrorOnlyWhenDisposed ==
  result = DisposedError => \E s \in DisposableSets : SetIsDisposed(s)

C5_FailsAndChangesNothing ==
  \A s \in DisposableSets, item \in IDisposable :
    (SetIsDisposed(s) /\ (add(s, item) \/ remove(s, item) \/ clear(s))) =>
      /\ result' = DisposedError
      /\ UNCHANGED <<callback, set, stack, membership, disposal>>

\* C5: add, remove and clear on a disposed set fail and change nothing.
C5_UseAfterDispose == []C5_ErrorOnlyWhenDisposed /\ [][C5_FailsAndChangesNothing]_vars

\* A set whose dispose() has returned, and a later call on it that failed.
C5_Witness ==
  \E s \in DisposableSets :
    /\ Completed(s)
    /\ Len(disposedBy[s]) >= 1
    /\ result = DisposedError
    /\ stack = <<>>

\* ---------------------------------------------------------------- C6
\* C6: remove(item) on an active set takes the item out and leaves the other
\* members in their order (a non-member: the membership as it was), and it
\* disposes nothing.  The set never calls dispose() on an item that was
\* taken out and not added again, and, as long as no item was added again,
\* it disposes the members it kept in the order of their insertion.
C6_RemovedNeverDisposed ==
  \A s \in DisposableSets :
    /\ Range(disposedBy[s]) \cap forgotten[s] = {}
    /\ "readded" \notin notes[s] =>
         /\ IsPrefix(disposedBy[s], Kept(s))
         /\ Completed(s) => disposedBy[s] = Kept(s)

C6_RemoveKeepsOrder ==
  \A s \in DisposableSets, item \in IDisposable :
    (~SetIsDisposed(s) /\ remove(s, item)) =>
      /\ set'[s] = SetObject(SelectSeq(set[s].entries, LAMBDA x : x # item))
      /\ \A t \in DisposableSets \ {s} : set'[t] = set[t]
      /\ item \notin Range(set[s].entries) => set' = set
      /\ result' = Returned
      /\ UNCHANGED <<callback, stack, disposal>>

\* C6: a removed item is never disposed by the set; the others keep their order.
C6_RemoveEffect == []C6_RemovedNeverDisposed /\ [][C6_RemoveKeepsOrder]_vars

\* A delegate was removed from a set that kept two other members; the set
\* has disposed those two, and the delegate's callback is still in place.
C6_Witness ==
  \E s \in DisposableSets, d \in Delegates :
    /\ d \in forgotten[s]
    /\ notes[s] = {}
    /\ Completed(s)
    /\ Len(disposedBy[s]) >= 2
    /\ ~DelegateIsDisposed(d)
    /\ stack = <<>>

\* ---------------------------------------------------------------- C7
\* C7: clear() on an active set empties it and disposes nothing: no
\* object's isDisposed changes, no dispose() is called, no callback
\* invoked.  A set whose last change was a clear holds nothing and calls
\* dispose() on no item when it is disposed.
C7_ClearedDisposesNothing ==
  \A s \in DisposableSets :
    "cleared" \in notes[s] =>
      /\ set[s].entries = <<>>
      /\ disposedBy[s] = <<>>

C7_ClearDisposesNothing ==
  \A s \in DisposableSets :
    (~SetIsDisposed(s) /\ clear(s)) =>
      /\ set'[s] = SetObject(<<>>)
      /\ \A t \in DisposableSets \ {s} : set'[t] = set[t]
      /\ \A x \in IDisposable : isDisposed(x)' = isDisposed(x)
      /\ result' = Returned
      /\ UNCHANGED <<callback, stack, disposal>>

\* C7: clear() forgets the members and disposes none of them.
C7_ClearEffect == []C7_ClearedDisposesNothing /\ [][C7_ClearDisposesNothing]_vars

\* A set that held two items, one of them a delegate with its callback, was
\* cleared and then disposed: nothing was disposed, the delegate is not.
C7_Witness ==
  \E s \in DisposableSets, d \in Delegates :
    /\ "cleared" \in notes[s]
    /\ Completed(s)
    /\ Len(firstAdded[s]) >= 2
    /\ d \in Range(firstAdded[s])
    /\ ~DelegateIsDisposed(d)
    /\ disposedBy[s] = <<>>
    /\ stack = <<>>

\* ---------------------------------------------------------------- C8
\* C8: the lifecycle is one-way.  Whatever step the program takes (a
\* dispose, add, remove or clear that succeeds or fails, a callback that
\* returns or throws), an object whose isDisposed reads true before the
\* step reads true after it, delegate and set alike.
C8_DisposedStaysDisposed ==
  [][\A x \in IDisposable : isDisposed(x) => isDisposed(x)']_vars

\* A set whose dispose() a throwing callback cut short, the delegate of that
\* callback, and a failed call on the set afterwards: both read disposed.
C8_Witness ==
  \E s \in DisposableSets, d \in Delegates :
    /\ s \in aborted
    /\ d \in Range(disposedBy[s])
    /\ SetIsDisposed(s)
    /\ DelegateIsDisposed(d)
    /\ result = DisposedError
    /\ stack = <<>>

\* ---------------------------------------------------------------- C9
\* C9: for every delegate, whatever callback value it was constructed with,
\* isDisposed is true if and only if dispose() has been called on it; a
\* freshly constructed delegate reads false.
C9_DisposedIffDisposeCalled ==
  \A d \in Delegates : DelegateIsDisposed(d) <=> disposeCalls[d] >= 1

\* ---------------------------------------------------------------- C10
\* C10: a set's isDisposed is true if and only if dispose() has been called
\* on it: it is false after construction with any list, and add, remove and
\* clear (no step that is not a dispose() call on it) never change it.  A
\* set never disposed that holds nothing (emptied by clear or by removing
\* its last member) accepts add().
C10_DisposedIffDisposeCalled ==
  \A s \in DisposableSets : SetIsDisposed(s) <=> disposeCalls[s] >= 1

C10_EmptySetAcceptsAdd ==
  \A s \in DisposableSets :
    /\ disposeCalls'[s] = disposeCalls[s] => (SetIsDisposed(s)' <=> SetIsDisposed(s))
    /\ \A item \in IDisposable :
         (disposeCalls[s] = 0 /\ set[s].entries = <<>> /\ add(s, item)) =>
           /\ result' = Returned
           /\ set'[s] = SetObject(<<item>>)

\* C10: a set reads disposed exactly when dispose() was called on it.
C10_SetDisposedOnlyByDispose ==
  []C10_DisposedIffDisposeCalled /\ [][C10_EmptySetAcceptsAdd]_vars

\* A set never disposed whose only item was taken out, leaving it empty, and
\* then added again: the add returned and the set holds the item.
C10_Witness ==
  \E s \in DisposableSets :
    /\ disposeCalls[s] = 0
    /\ ~SetIsDisposed(s)
    /\ Len(firstAdded[s]) = 1
    /\ "readded" \in notes[s]
    /\ set[s].entries = firstAdded[s]
    /\ result = Returned

\* ---------------------------------------------------------------- C11
\* C11: when the callback of a delegate throws, the error leaves the
\* delegate's dispose(): a caller in user code receives it, a collection's
\* forEach that made the call is ended by it (and so on up to the nearest
\* user code, which receives it).  The delegate reads disposed after the
\* throw, and from then on no step, no further dispose() call on it
\* included, invokes its callback.
C11_ErrorPropagates ==
  \A d \in Delegates :
    (CallbackThrow /\ Top.self = d) =>
    LET caller == Pop(stack)
    IN  /\ DelegateIsDisposed(d)'
        /\ result' = CallbackError
        /\ UserCodeOn(stack')
        /\ Len(stack') <= Len(caller)
        /\ stack' = SubSeq(caller, 1, Len(stack'))
        /\ \A k \in (Len(stack') + 1) .. Len(caller) : caller[k].kind = "forEach"
        /\ UserCodeOn(caller) => stack' = caller
        /\ UNCHANGED <<callback, set, invoked, disposeCalls, disposedBy>>

C11_NeverInvokedAgain ==
  \A d \in Delegates :
    DelegateIsDisposed(d) =>
      /\ DelegateIsDisposed(d)'
      /\ invoked'[d] = invoked[d]

\* C11: a throwing callback's error propagates, the delegate stays disposed.
C11_CallbackErrorPropagates ==
  [][C11_ErrorPropagates]_vars /\ [][C11_NeverInvokedAgain]_vars

\* The callback of a delegate threw while a set was disposing it (the set's
\* dispose() was cut short at that member); after the error, user code
\* called dispose() on the delegate once more, and that call returned.
C11_Witness ==
  \E s \in DisposableSets, d \in Delegates :
    /\ s \in aborted
    /\ disposedBy[s] # <<>>
    /\ disposedBy[s][Len(disposedBy[s])] = d
    /\ DelegateIsDisposed(d)
    /\ disposeCalls[d] = 2
    /\ invoked[d] = 1
    /\ calls = 2
    /\ result = Returned
    /\ stack = <<>>

\* ---------------------------------------------------------------- C12
\* C12: the first dispose() of a set calls dispose() on every item that was
\* a member when it was called, however the members behave: once the call
\* has ended, by returning or by an error, every member has been disposed
\* by the set.
C12_EveryMemberDisposed ==
  \A s \in DisposableSets :
    (SetIsDisposed(s) /\ NotIterating(s)) =>
      Range(memberSince[s]) \subseteq Range(disposedBy[s])

\* ---------------------------------------------------------------- C13
\* C13: reading isDisposed of a delegate or a set, whenever user code has
\* control (before, after or in the middle of a disposal), yields a boolean,
\* never an error: true exactly when the object is disposed.  The read
\* changes no field, no frame of the call stack, no membership, no count
\* of calls and invocations, and no object's isDisposed.
C13_ReadChangesNothing ==
  \A x \in IDisposable :
    ReadIsDisposed(x) =>
      /\ result' = (IF isDisposed(x) THEN ReadTrue ELSE ReadFalse)
      /\ \A y \in IDisposable : isDisposed(y)' = isDisposed(y)
      /\ UNCHANGED <<callback, set, stack, calls, membership, disposal>>

\* C13: reading isDisposed never raises and has no side effect.
C13_ReadHasNoSideEffect == [][C13_ReadChangesNothing]_vars

\* In the middle of a disposal: a set is iterating, the callback of the
\* member it is disposing runs and has read true from isDisposed.  No
\* object read true before that one dispose() call, so the read was made
\* by the callback, of the set or the delegate being disposed.
C13_Witness ==
  \E s \in DisposableSets, d \in Delegates :
    /\ stack = <<[ForEachFrame(s, memberSince[s]) EXCEPT !.idx = 2], CallbackFrame(d)>>
    /\ \A e \in Delegates : Truthy(ctorCallback[e])
    /\ calls = 1
    /\ result = ReadTrue
    /\ Len(memberSince[s]) = 2
    /\ invoked[d] = 1

\* ---------------------------------------------------------------- C14
\* C14: DisposableDelegate.dispose() clears the stored callback before it
\* invokes it.  While the callback of a delegate is running (its frame is
\* on the call stack) the delegate's isDisposed is true, so a read made by
\* the callback yields true; and a dispose() call on the delegate made
\* meanwhile (a re-entrant one) invokes nothing, starts nothing and leaves
\* every delegate and set as it was: made by user code it returns at once.
Running(d) ==
  \E k \in 1 .. Len(stack) : stack[k].kind = "callback" /\ stack[k].self = d

C14_DisposedWhileRunning ==
  \A d \in Delegates : Running(d) => DelegateIsDisposed(d)

C14_ReentrantDisposeIsNoOp ==
  \A d \in Delegates :
    /\ (Running(d) /\ ReadIsDisposed(d)) => result' = ReadTrue
    /\ (Running(d) /\ disposeCalls'[d] > disposeCalls[d]) =>
         /\ invoked' = invoked
         /\ callback' = callback
         /\ set' = set
         /\ Len(stack') = Len(stack)
         /\ UserCode => (stack' = stack /\ result' = Returned)

\* C14: the callback is cleared before it is invoked.
C14_ClearedBeforeInvoked ==
  []C14_DisposedWhileRunning /\ [][C14_ReentrantDisposeIsNoOp]_vars

\* The callback of a delegate is running, called by its first dispose();
\* from inside it user code has called dispose() on the delegate again,
\* which returned without a second invocation, and has then read the
\* delegate's isDisposed (the only object disposed so far): true.
C14_Witness ==
  \E d \in Delegates :
    /\ stack = <<CallbackFrame(d)>>
    /\ disposeCalls[d] = 2
    /\ invoked[d] = 1
    /\ calls = 2
    /\ result = ReadTrue
    /\ \A x \in IDisposable \ {d} : ~isDisposed(x)

\* ---------------------------------------------------------------- C15
\* C15: DisposableSet.dispose() marks the set disposed before it disposes a
\* member.  While a forEach of the set is on the call stack the set's
\* isDisposed is true, and the forEach iterates the membership the set had
\* when dispose() was called: the items disposed so far are its first
\* idx - 1 entries.  An add, remove or clear called on the set meanwhile
\* fails with the disposed error and changes nothing, a read of isDisposed
\* yields true, and no step changes the list a running forEach iterates.
C15_DisposedWhileIterating ==
  /\ \A s \in DisposableSets : ~NotIterating(s) => SetIsDisposed(s)
  /\ \A k \in 1 .. Len(stack) :
       stack[k].kind = "forEach" =>
         /\ stack[k].items = memberSince[stack[k].self]
         /\ disposedBy[stack[k].self] = SubSeq(stack[k].items, 1, stack[k].idx - 1)

C15_CapturedMembershipFixed ==
  /\ \A s \in DisposableSets, item \in IDisposable :
       (~NotIterating(s) /\ (add(s, item) \/ remove(s, item) \/ clear(s))) =>
         /\ result' = DisposedError
         /\ UNCHANGED <<callback, set, stack, membership, disposal>>
  /\ \A s \in DisposableSets :
       (~NotIterating(s) /\ ReadIsDisposed(s)) => result' = ReadTrue
  /\ \A k \in 1 .. Len(stack) :
       k <= Len(stack') =>
         /\ stack'[k].kind = stack[k].kind
         /\ stack'[k].self = stack[k].self
         /\ stack'[k].items = stack[k].items

\* C15: the set is marked disposed before any member is disposed.
C15_MarkedBeforeMembers ==
  []C15_DisposedWhileIterating /\ [][C15_CapturedMembershipFixed]_vars

\* A set of two members is disposing its first one, a delegate whose
\* callback is running; from inside the callback user code made a call of
\* add, remove or clear that failed with the disposed error.  The set is
\* the only disposed set, so the call was made on it, during its disposal.
C15_Witness ==
  \E s \in DisposableSets, d \in Delegates :
    /\ stack = <<[ForEachFrame(s, memberSince[s]) EXCEPT !.idx = 2], CallbackFrame(d)>>
    /\ Len(memberSince[s]) = 2
    /\ SetIsDisposed(s)
    /\ \A t \in DisposableSets \ {s} : ~SetIsDisposed(t)
    /\ calls = 2
    /\ result = DisposedError

\* ---------------------------------------------------------------- C16
\* C16: after any add, remove and clear calls on an active set, dispose()
\* disposes the members present in the order in which each was first
\* inserted, members that were removed and later added again included.
C16_FirstInsertionOrder ==
  \A s \in DisposableSets : Completed(s) => disposedBy[s] = Kept(s)

\* C16 as amended: the set disposes its members in the order of the add()
\* that made each of them a member.  That is the order of first insertion
\* for a set no item was added to again; an item that was taken out and
\* added again is disposed at the place of its latest insertion, after
\* every member present when it was added again.  While dispose() runs, and
\* after an error has cut it short, the items disposed so far are the first
\* ones in that order.
C16_LatestInsertionOrder ==
  \A s \in DisposableSets :
    /\ IsPrefix(disposedBy[s], memberSince[s])
    /\ Completed(s) => disposedBy[s] = memberSince[s]
    /\ Range(memberSince[s]) = Range(Kept(s))
    /\ "readded" \notin notes[s] => memberSince[s] = Kept(s)
    /\ ~SetIsDisposed(s) => set[s].entries = memberSince[s]

\* A set was constructed with two items, the first one was removed and
\* added again, and the set was disposed: the item added again went last.
C16_Witness ==
  \E s \in DisposableSets :
    /\ Completed(s)
    /\ "readded" \in notes[s]
    /\ Len(Kept(s)) = 2
    /\ disposedBy[s] = <<Kept(s)[2], Kept(s)[1]>>
    /\ stack = <<>>

\* ---------------------------------------------------------------- C17
\* C17: collection disposal is fail-fast.  When the callback of a delegate
\* throws, every forEach between the callback and the nearest user code
\* below it ends in that very step: the error reaches that user code, the
\* set is left disposed, the member whose dispose() raised is the last one
\* the set has called dispose() on, the members before it have been
\* disposed in insertion order, and the members after it have not been
\* disposed by the set.
C17_AbortedAtFailingMember ==
  \A s \in aborted :
    /\ SetIsDisposed(s)
    /\ NotIterating(s)
    /\ disposedBy[s] # <<>>
    /\ IsPrefix(disposedBy[s], memberSince[s])

C17_ErrorEndsForEach ==
  \A k \in 1 .. Len(stack), s \in DisposableSets :
    (/\ CallbackThrow
     /\ stack[k].kind = "forEach"
     /\ stack[k].self = s
     /\ \A j \in (k + 1) .. (Len(stack) - 1) : stack[j].kind = "forEach") =>
      LET items == stack[k].items
          idx == stack[k].idx
      IN  /\ Len(stack') < k
          /\ UserCodeOn(stack')
          /\ result' = CallbackError
          /\ s \in aborted'
          /\ SetIsDisposed(s)'
          /\ idx >= 2
          /\ stack[k + 1].self = items[idx - 1]
          /\ disposedBy[s] = SubSeq(items, 1, idx - 1)
          /\ disposedBy'[s] = disposedBy[s]
          /\ \A j \in idx .. Len(items) : items[j] \notin Range(disposedBy'[s])

\* C17: a member's error ends the collection's dispose() at once.
C17_FailFast == []C17_AbortedAtFailingMember /\ [][C17_ErrorEndsForEach]_vars

\* A set of three members was disposed and the dispose() of its second
\* member raised: the caller has the error, the first two members were
\* disposed in order, and the third, a delegate, still has its callback.
C17_Witness ==
  \E s \in DisposableSets, d \in Delegates :
    /\ s \in aborted
    /\ Len(memberSince[s]) = 3
    /\ disposedBy[s] = SubSeq(memberSince[s], 1, 2)
    /\ memberSince[s][3] = d
    /\ ~DelegateIsDisposed(d)
    /\ invoked[d] = 0
    /\ result = CallbackError
    /\ stack = <<>>

\* ---------------------------------------------------------------- C18
\* C18: constructing a set from a list is the same as constructing an empty
\* set and adding the items of the list in order.  A constructed set holds
\* the items of its list in order, a repeated item once, at its first
\* position.  An add(item) on an active set whose state is the one the
\* constructor gives for a list leaves it in the state the constructor
\* gives for that list with the item appended.  So, by induction on the
\* list, add(i1), ..., add(in) on an empty set reach the state of the set
\* constructed from [i1..in]; and whichever way its items came (the list,
\* add calls, or both), a set no item was taken from holds them, and later
\* disposes them, in the order of their first insertion.
Lists == SeqsUpTo(IDisposable, MaxInitItems)

C18_FirstPositions ==
  \A s \in DisposableSets :
    /\ calls = 0 => set[s] = SetObject(firstAdded[s])
    /\ ~Shrunk(s) =>
         /\ ~SetIsDisposed(s) => set[s] = SetConstructor(firstAdded[s])
         /\ Completed(s) => disposedBy[s] = SetConstructor(firstAdded[s]).entries

C18_AddExtendsConstructor ==
  \A s \in DisposableSets, item \in IDisposable :
    (~SetIsDisposed(s) /\ add(s, item)) =>
      \A list \in Lists :
        set[s] = SetConstructor(list) =>
          /\ set'[s] = SetConstructor(Append(list, item))
          /\ result' = Returned

\* C18: the constructor's list and a run of add() calls are equivalent.
C18_ConstructorIsAdds == []C18_FirstPositions /\ [][C18_AddExtendsConstructor]_vars

\* An add() call with an item the set held already has returned, and the
\* set is in the state the constructor gives for a list of three items with
\* that item repeated: two members, the repeated one at its first position.
C18_Witness ==
  \E s \in DisposableSets, a, b \in IDisposable :
    /\ a # b
    /\ "repeated" \in notes[s]
    /\ ~Shrunk(s)
    /\ firstAdded[s] = <<a, b>>
    /\ set[s] = SetConstructor(<<a, b, a>>)
    /\ result = Returned

\* ---------------------------------------------------------------- C19
\* C19: a set whose dispose() an error has cut short is disposed, for good.
\* Its isDisposed reads true; add, remove and clear on it fail with the
\* disposed error and change nothing; every later dispose() call on it
\* starts no forEach, invokes nothing and, made by user code, returns at
\* once.  No later step makes the set call dispose() on an item, so the
\* members that were skipped are never disposed by the set.
Skipped(s) == Range(memberSince[s]) \ Range(disposedBy[s])

C19_AbortedIsDisposed ==
  \A s \in aborted : SetIsDisposed(s) /\ set[s] = NullSet

C19_SkippedStaySkipped ==
  \A s \in aborted :
    /\ s \in aborted'
    /\ SetIsDisposed(s)'
    /\ disposedBy'[s] = disposedBy[s]
    /\ Skipped(s)' = Skipped(s)
    /\ NotIterating(s)'
    /\ ReadIsDisposed(s) => result' = ReadTrue
    /\ \A item \in IDisposable :
         (add(s, item) \/ remove(s, item) \/ clear(s)) =>
           /\ result' = DisposedError
           /\ UNCHANGED <<callback, set, stack, membership, disposal>>
    /\ disposeCalls'[s] > disposeCalls[s] =>
         /\ UNCHANGED <<callback, set, invoked, aborted>>
         /\ Len(stack') = Len(stack)
         /\ UserCode => (stack' = stack /\ result' = Returned /\ disposedBy' = disposedBy)

\* C19: an aborted dispose() leaves the set disposed; the rest is skipped.
C19_AbortedStaysDisposed == []C19_AbortedIsDisposed /\ [][C19_SkippedStaySkipped]_vars

\* The dispose() of a set was cut short by its first member; after the
\* error user code called dispose() on the set again, which returned, and
\* the second member, a delegate, has not been disposed.
C19_Witness ==
  \E s \in DisposableSets, d \in Delegates :
    /\ s \in aborted
    /\ d \in Skipped(s)
    /\ ~DelegateIsDisposed(d)
    /\ disposeCalls[d] = 0
    /\ disposeCalls[s] = 2
    /\ calls = 2
    /\ result = Returned
    /\ stack = <<>>

\* ---------------------------------------------------------------- C20
\* C20: a set calls dispose() on each member without looking at the
\* member's isDisposed: every turn of its forEach is one more dispose()
\* call on the item, a no-op on an item that reads disposed.  So a
\* delegate receives one dispose() call from every set that disposes it,
\* besides the direct ones, and over all of them its callback (if it was
\* constructed with one) is invoked once: by the first dispose() call that
\* reaches it, whichever that is.
C20_OnceOverAllOwners ==
  \A d \in Delegates :
    /\ disposeCalls[d] >= Cardinality({s \in DisposableSets : d \in Range(disposedBy[s])})
    /\ invoked[d] <= 1
    /\ (Truthy(ctorCallback[d]) /\ disposeCalls[d] >= 1) => invoked[d] = 1

C20_MemberDisposeUnconditional ==
  /\ \A x \in IDisposable :
       (ForEachStep /\ Top.items[Top.idx] = x) =>
         /\ disposeCalls'[x] = disposeCalls[x] + 1
         /\ disposedBy'[Top.self] = Append(disposedBy[Top.self], x)
         /\ isDisposed(x) => UNCHANGED <<callback, set, invoked>>
         /\ (x \in Delegates /\ ~isDisposed(x)) => invoked'[x] = invoked[x] + 1
  /\ \A d \in Delegates :
       invoked'[d] # invoked[d] =>
         /\ disposeCalls[d] = 0
         /\ disposeCalls'[d] = 1
         /\ Truthy(ctorCallback[d])

\* C20: members are disposed unconditionally; a shared delegate runs once.
C20_SharedDelegateInvokedOnce ==
  []C20_OnceOverAllOwners /\ [][C20_MemberDisposeUnconditional]_vars

\* A delegate with a callback is a member of both sets and was also
\* disposed directly: three dispose() calls reached it, two of them from
\* the sets, and its callback was invoked once.
C20_Witness ==
  \E d \in Delegates :
    /\ Truthy(ctorCallback[d])
    /\ \A s \in DisposableSets : Completed(s) /\ d \in Range(disposedBy[s])
    /\ disposeCalls[d] = 3
    /\ invoked[d] = 1
    /\ calls = 3
    /\ stack = <<>>

\* ---------------------------------------------------------------- C21
\* The sets that set s holds, and the sets it reaches through them.
Contains(s, t) == t \in Range(memberSince[s])

Reaches(s, t) ==
  \/ Contains(s, t)
  \/ \E u \in DisposableSets : Contains(s, u) /\ Contains(u, t)

\* The sets on a cycle with s: s itself if it contains itself, directly or
\* through the other set, and then every set it reaches that reaches it.
CycleOf(s) == {t \in DisposableSets : Reaches(s, t) /\ Reaches(t, s)}

\* C21: dispose() of a set that contains itself, directly or through a
\* cycle of nested sets, terminates.  A dispose() call that reaches a set
\* whose forEach is running starts no second forEach and changes nothing;
\* no set calls dispose() on a member twice; and once the dispose() of a
\* set of the cycle has ended, every set of the cycle is disposed.
C21_CycleEndsDisposed ==
  \A s \in DisposableSets :
    /\ NoDuplicates(disposedBy[s])
    /\ Cardinality({k \in 1 .. Len(stack) :
         stack[k].kind = "forEach" /\ stack[k].self = s}) <= 1
    /\ (disposeCalls[s] >= 1 /\ NotIterating(s)) =>
         \A t \in CycleOf(s) : SetIsDisposed(t)

\* Termination: a forEach that is on the call stack comes off it.
C21_Terminates ==
  \A s \in DisposableSets : (~NotIterating(s)) ~> NotIterating(s)

\* A dispose() call that reaches a set being disposed is a no-op.
C21_ReentrantDisposeIsNoOp ==
  [][\A s \in DisposableSets :
       (~NotIterating(s) /\ disposeCalls'[s] > disposeCalls[s]) =>
         /\ UNCHANGED <<callback, set, invoked, aborted>>
         /\ Len(stack') = Len(stack)
         /\ UserCode => (stack' = stack /\ result' = Returned)]_vars

====
